---- MODULE Spec2Model ----
(***************************************************************************)
(* Model of mincombo.py: for each restaurant (vendor) of a catalog, find   *)
(* the cheapest combination of menu combos (bundles) that contains every   *)
(* requested item, and report the cheapest restaurant.                     *)
(*                                                                         *)
(* A menu row is the Python list [cost, item1, item2, ...], modelled as    *)
(* the sequence <<cost, item1, item2, ...>>; a catalog line is             *)
(* <<restaurant, cost, item1, ...>>.  Items and restaurants are             *)
(* names (strings, only compared for equality); a cost is modelled by      *)
(* the number its decimal string denotes.  Python values of several types  *)
(* (None, inf, a raised exception, a value) are tagged records.            *)
(***************************************************************************)
EXTENDS Integers, Sequences, FiniteSets

VARIABLES items, read, menu, reduced_menu, curr_restaurant, curr_min_cost,
          min_cost, min_restaurant, output, pc, solved,
          item_combos, item_combo, valid

vars == <<items, read, menu, reduced_menu, curr_restaurant, curr_min_cost,
          min_cost, min_restaurant, output, pc, solved,
          item_combos, item_combo, valid>>

(* ------------------------------ inputs --------------------------------- *)
MaxMenu == 3
MaxLines == 3
MaxComboLen == 2

\* the item names, in the order combos list them, the restaurant names and
\* the costs (a free combo and a paid one)
ItemOrder == <<"coffee", "apples">>
Restaurants == {"A", "B"}
Prices == {0, 1}

Items == {ItemOrder[i] : i \in 1..Len(ItemOrder)}

RECURSIVE SeqsUpTo(_, _)
SeqsUpTo(S, n) ==
  IF n = 0 THEN {<<>>}
  ELSE LET shorter == SeqsUpTo(S, n - 1)
       IN shorter \cup {Append(s, e) : s \in {t \in shorter : Len(t) = n - 1}, e \in S}

\* the lists that name some of the items of s, in the order of s
RECURSIVE Sublists(_)
Sublists(s) ==
  IF s = <<>> THEN {<<>>}
  ELSE LET rest == Sublists(Tail(s))
       IN rest \cup {<<Head(s)>> \o l : l \in rest}

\* a combo lists any selection of the items; a request is a list of items,
\* no longer than the number of items, in which an item may be repeated
ItemLists == Sublists(ItemOrder)
Rows == {<<p>> \o l : p \in Prices, l \in ItemLists}
Menus == SeqsUpTo(Rows, MaxMenu)
Requests == SeqsUpTo(Items, Len(ItemOrder))
Lines == {<<r, p>> \o l : r \in Restaurants, p \in Prices, l \in ItemLists \ {<<>>}}

(* --------------------------- Python values ----------------------------- *)
None == [kind |-> "None"]
Inf == [kind |-> "inf"]
AttributeError == [kind |-> "AttributeError"]
TypeError == [kind |-> "TypeError"]
Val(v) == [kind |-> "val", val |-> v]
IsVal(x) == x.kind = "val"
IsRaise(x) == x.kind \in {"AttributeError", "TypeError"}

SetOf(s) == {s[i] : i \in 1..Len(s)}

(* ------------------------------ reduce_menu ---------------------------- *)
\* variant: every combo is kept, whether or not it has a desired item
keep_combo_all(combo, its) == TRUE

\* line 37: the combo has at least one desired item
keep_combo(combo, its) == Cardinality(SetOf(Tail(combo)) \cap SetOf(its)) > 0

\* variant: the check for missing items is left out
items_missing_never(flat_menu, its) == FALSE

\* variant: the menu is rejected only when it has none of the input items
items_missing_none(flat_menu, its) ==
  Cardinality(SetOf(flat_menu) \cap SetOf(its)) = 0

\* variant: the input items are counted without their repetitions
items_missing_set(flat_menu, its) ==
  Cardinality(SetOf(flat_menu) \cap SetOf(its)) # Cardinality(SetOf(its))

\* line 41: some input item is missing from the final menu (len(list(items))
\* counts repetitions, the set intersection does not)
items_missing(flat_menu, its) ==
  Cardinality(SetOf(flat_menu) \cap SetOf(its)) # Len(its)

RECURSIVE reduce_loop(_, _, _, _, _)
reduce_loop(mn, its, i, red, flat_menu) ==
  IF i > Len(mn)
  THEN IF items_missing(flat_menu, its) THEN None ELSE Val(red)
  ELSE IF keep_combo(mn[i], its)
       THEN reduce_loop(mn, its, i + 1, Append(red, mn[i]), flat_menu \o Tail(mn[i]))
       ELSE reduce_loop(mn, its, i + 1, red, flat_menu)

reduce_menu(mn, its) == reduce_loop(mn, its, 1, <<>>, <<>>)

(* ---------------------------- get_item_combos -------------------------- *)
\* itertools.combinations(range(lo, n), r): the r-tuples of indices in
\* increasing order, emitted in lexicographic order
RECURSIVE combinations(_, _, _)
combinations(lo, n, r) ==
  IF r = 0 THEN << <<>> >>
  ELSE IF lo >= n THEN <<>>
  ELSE LET rest == combinations(lo + 1, n, r - 1)
       IN [j \in 1..Len(rest) |-> <<lo>> \o rest[j]] \o combinations(lo + 1, n, r)

\* lines 71-73: s = [0] * n; s[bit] = 1 for each bit (0-based)
bits_to_list(n, bits) ==
  [i \in 1..n |-> IF \E j \in 1..Len(bits) : bits[j] = i - 1 THEN 1 ELSE 0]

\* variant: combinations of size k instead of k + 1
combo_size_same(k) == k

\* line 70: the combinations of size k + 1
combo_size(k) == k + 1

RECURSIVE combos_loop(_, _)
combos_loop(n, k) ==
  IF k >= n THEN <<>>
  ELSE LET cs == combinations(0, n, combo_size(k))
       IN [j \in 1..Len(cs) |-> bits_to_list(n, cs[j])] \o combos_loop(n, k + 1)

get_item_combos(n) == combos_loop(n, 0)

(* ------------------------ is_valid_combo, get_price -------------------- *)
\* "menu.length": a Python list has no attribute named length, so
\* evaluating the expression raises AttributeError, for every list
list_length(l) == AttributeError

\* lines 90-103: has_items[item] is set for every item of a selected combo
has_all_items(mn, cmb, its) ==
  \A k \in 1..Len(its) :
    \E x \in 1..Len(cmb) : cmb[x] > 0 /\ its[k] \in SetOf(Tail(mn[x]))

is_valid_combo(mn, cmb, its) ==
  IF IsRaise(list_length(mn)) THEN list_length(mn)
  ELSE IF list_length(mn) # list_length(cmb) THEN TypeError
  ELSE Val(has_all_items(mn, cmb, its))

RECURSIVE price_loop(_, _, _)
price_loop(mn, cmb, i) ==
  IF i > Len(cmb) THEN 0 ELSE mn[i][1] * cmb[i] + price_loop(mn, cmb, i + 1)

get_price(mn, cmb) ==
  IF IsRaise(list_length(mn)) THEN list_length(mn)
  ELSE IF list_length(mn) # list_length(cmb) THEN TypeError
  ELSE Val(price_loop(mn, cmb, 1))

(* ------------------------------ get_min_cost --------------------------- *)
\* float(a) < float(b) on a price or inf
less_than(a, b) ==
  IF a = Inf THEN FALSE ELSE IF b = Inf THEN TRUE ELSE a.val < b.val

\* lines 122-129: an exception raised by a callee leaves the loop
RECURSIVE min_loop(_, _, _, _, _)
min_loop(mn, its, combos, j, min_price) ==
  IF j > Len(combos) THEN min_price
  ELSE LET ok == is_valid_combo(mn, combos[j], its)
       IN IF IsRaise(ok) THEN ok
          ELSE IF ~ok.val THEN min_loop(mn, its, combos, j + 1, min_price)
          ELSE LET combo_price == get_price(mn, combos[j])
               IN IF IsRaise(combo_price) THEN combo_price
                  ELSE IF less_than(combo_price, min_price)
                       THEN min_loop(mn, its, combos, j + 1, combo_price)
                       ELSE min_loop(mn, its, combos, j + 1, min_price)

get_min_cost(mn, its) ==
  IF Len(mn) = 0 THEN None
  ELSE IF Len(mn) = 1 THEN Val(mn[1][1])
  ELSE min_loop(mn, its, get_item_combos(Len(mn)), 1, Inf)

(* ----------------- the functions applied to drawn inputs --------------- *)
Unset == [kind |-> "unset"]

InitFn ==
  /\ menu \in Menus
  /\ items \in Requests
  /\ pc = "fn"
  /\ reduced_menu = Unset
  /\ curr_min_cost = Unset
  /\ item_combos = Unset
  /\ item_combo = <<>>
  /\ valid = Unset
  /\ read = <<>>
  /\ curr_restaurant = None
  /\ min_cost = Inf
  /\ min_restaurant = None
  /\ output = Unset
  /\ solved = <<>>

\* reduced_menu = reduce_menu(menu, items)
CallReduceMenu ==
  /\ pc = "fn"
  /\ reduced_menu' = reduce_menu(menu, items)
  /\ pc' = "reduce_menu"
  /\ UNCHANGED <<items, read, menu, curr_restaurant, curr_min_cost, min_cost,
                 min_restaurant, output, solved, item_combos, item_combo, valid>>

\* lines 165-166: curr_min_cost = get_min_cost(reduced_menu, items)
CallGetMinCostReduced ==
  /\ pc = "reduce_menu"
  /\ reduced_menu # None
  /\ curr_min_cost' = get_min_cost(reduced_menu.val, items)
  /\ pc' = "get_min_cost_reduced"
  /\ UNCHANGED <<items, read, menu, reduced_menu, curr_restaurant, min_cost,
                 min_restaurant, output, solved, item_combos, item_combo, valid>>

\* get_min_cost on a menu that did not go through reduce_menu
CallGetMinCost ==
  /\ pc = "fn"
  /\ curr_min_cost' = get_min_cost(menu, items)
  /\ pc' = "get_min_cost"
  /\ UNCHANGED <<items, read, menu, reduced_menu, curr_restaurant, min_cost,
                 min_restaurant, output, solved, item_combos, item_combo, valid>>

\* line 121: item_combos = get_item_combos(len(menu))
CallGetItemCombos ==
  /\ pc = "fn"
  /\ item_combos' = Val(get_item_combos(Len(menu)))
  /\ pc' = "get_item_combos"
  /\ UNCHANGED <<items, read, menu, reduced_menu, curr_restaurant, curr_min_cost,
                 min_cost, min_restaurant, output, solved, item_combo, valid>>

NextFn == CallReduceMenu \/ CallGetMinCostReduced \/ CallGetMinCost \/ CallGetItemCombos

SpecFn == InitFn /\ [][NextFn]_vars

(* --------------------- is_valid_combo on drawn inputs ------------------ *)
InitValid ==
  /\ InitFn
  /\ Len(menu) <= MaxComboLen

\* valid = is_valid_combo(menu, item_combo, items), for a selection list of
\* the menu's length or of another length
CallIsValidCombo ==
  /\ pc = "fn"
  /\ \E cmb \in SeqsUpTo({0, 1}, MaxComboLen + 1) :
       /\ item_combo' = cmb
       /\ valid' = is_valid_combo(menu, cmb, items)
  /\ pc' = "is_valid_combo"
  /\ UNCHANGED <<items, read, menu, reduced_menu, curr_restaurant, curr_min_cost,
                 min_cost, min_restaurant, output, solved, item_combos>>

NextValid == CallIsValidCombo

SpecValid == InitValid /\ [][NextValid]_vars

(* -------------------------------- main --------------------------------- *)
InvalidParameters == [kind |-> "Invalid parameters: No items provided"]

\* variant: only the first line of the file opens a restaurant
new_restaurant_first(cur, line) == cur = None

\* line 160: the line belongs to another restaurant than the current one
new_restaurant(cur, line) == cur # Val(line[1])

\* lines 163-169 and 177-183: the lowest price of the current restaurant is
\* folded into the running minimum; an exception raised by get_min_cost is
\* not caught
check_restaurant(mn, its, cur, red, cmc, mc, mr) ==
  IF ~(Len(mn) > 0)
  THEN [reduced_menu |-> red, curr_min_cost |-> cmc, min_cost |-> mc,
        min_restaurant |-> mr, raised |-> None, called |-> FALSE]
  ELSE LET r == reduce_menu(mn, its)
       IN IF r = None
          THEN [reduced_menu |-> r, curr_min_cost |-> cmc, min_cost |-> mc,
                min_restaurant |-> mr, raised |-> None, called |-> TRUE]
          ELSE LET c == get_min_cost(r.val, its)
               IN IF IsRaise(c)
                  THEN [reduced_menu |-> r, curr_min_cost |-> cmc, min_cost |-> mc,
                        min_restaurant |-> mr, raised |-> c, called |-> TRUE]
                  ELSE IF c # None /\ less_than(c, mc)
                       THEN [reduced_menu |-> r, curr_min_cost |-> c, min_cost |-> c,
                             min_restaurant |-> cur, raised |-> None, called |-> TRUE]
                       ELSE [reduced_menu |-> r, curr_min_cost |-> c, min_cost |-> mc,
                             min_restaurant |-> mr, raised |-> None, called |-> TRUE]

InitMain ==
  /\ items \in Requests
  /\ pc = "start"
  /\ read = <<>>
  /\ menu = <<>>
  /\ reduced_menu = Unset
  /\ curr_restaurant = Unset
  /\ curr_min_cost = Unset
  /\ min_cost = Unset
  /\ min_restaurant = Unset
  /\ output = Unset
  /\ solved = <<>>
  /\ item_combos = Unset
  /\ item_combo = <<>>
  /\ valid = Unset

\* lines 141-153: the request is checked and the tracking variables are set
Start ==
  /\ pc = "start"
  /\ IF Len(items) = 0
     THEN /\ output' = InvalidParameters
          /\ pc' = "done"
          /\ UNCHANGED <<min_cost, min_restaurant, curr_restaurant, menu, reduced_menu>>
     ELSE /\ min_cost' = Inf
          /\ min_restaurant' = None
          /\ curr_restaurant' = None
          /\ menu' = <<>>
          /\ reduced_menu' = Val(<<>>)
          /\ pc' = "loop"
          /\ UNCHANGED output
  /\ UNCHANGED <<items, read, curr_min_cost, solved, item_combos, item_combo, valid>>

\* lines 156-173: one iteration of the loop over the lines of the file
ReadLine ==
  /\ pc = "loop"
  /\ Len(read) < MaxLines
  /\ \E line \in Lines :
       /\ read' = Append(read, line)
       /\ IF new_restaurant(curr_restaurant, line)
          THEN LET res == check_restaurant(menu, items, curr_restaurant, reduced_menu,
                                           curr_min_cost, min_cost, min_restaurant)
               IN /\ reduced_menu' = res.reduced_menu
                  /\ curr_min_cost' = res.curr_min_cost
                  /\ min_cost' = res.min_cost
                  /\ min_restaurant' = res.min_restaurant
                  /\ solved' = IF res.called
                               THEN Append(solved, <<curr_restaurant.val, menu>>)
                               ELSE solved
                  /\ IF IsRaise(res.raised)
                     THEN /\ pc' = "crashed"
                          /\ output' = res.raised
                          /\ UNCHANGED <<curr_restaurant, menu>>
                     ELSE /\ curr_restaurant' = Val(line[1])
                          /\ menu' = <<Tail(line)>>
                          /\ UNCHANGED <<pc, output>>
          ELSE /\ menu' = Append(menu, Tail(line))
               /\ UNCHANGED <<reduced_menu, curr_min_cost, min_cost, min_restaurant,
                              solved, curr_restaurant, pc, output>>
  /\ UNCHANGED <<items, item_combos, item_combo, valid>>

\* lines 177-189: at the end of the file the last restaurant is checked and
\* the result is printed
Finish ==
  /\ pc = "loop"
  /\ LET res == check_restaurant(menu, items, curr_restaurant, reduced_menu,
                                 curr_min_cost, min_cost, min_restaurant)
     IN /\ reduced_menu' = res.reduced_menu
        /\ curr_min_cost' = res.curr_min_cost
        /\ min_cost' = res.min_cost
        /\ min_restaurant' = res.min_restaurant
        /\ solved' = IF res.called
                     THEN Append(solved, <<curr_restaurant.val, menu>>)
                     ELSE solved
        /\ IF IsRaise(res.raised)
           THEN /\ pc' = "crashed"
                /\ output' = res.raised
           ELSE /\ pc' = "done"
                /\ output' = IF res.min_restaurant = None
                             THEN None
                             ELSE Val(<<res.min_restaurant.val, res.min_cost.val>>)
  /\ UNCHANGED <<items, read, menu, curr_restaurant, item_combos, item_combo, valid>>

NextMain == Start \/ ReadLine \/ Finish

SpecMain == InitMain /\ [][NextMain]_vars

(* ------------------- notions the properties are stated in -------------- *)
Distinct(s) == \A i, j \in 1..Len(s) : i # j => s[i] # s[j]
HasRepeat(s) == ~Distinct(s)

Selections(n) == [1..n -> {0, 1}]

\* every requested item is contained in a selected bundle
Covers(mn, sel, its) ==
  \A it \in SetOf(its) : \E i \in 1..Len(mn) : sel[i] = 1 /\ it \in SetOf(Tail(mn[i]))

RECURSIVE TotalPrice(_, _, _)
TotalPrice(mn, sel, i) ==
  IF i > Len(mn) THEN 0
  ELSE (IF sel[i] = 1 THEN mn[i][1] ELSE 0) + TotalPrice(mn, sel, i + 1)

\* the total prices of the selections of bundles of mn that cover its
CoverPrices(mn, its) ==
  {TotalPrice(mn, sel, 1) : sel \in {t \in Selections(Len(mn)) : Covers(mn, t, its)}}

MinOf(S) == CHOOSE x \in S : \A y \in S : x <= y

InSomeBundle(it, mn) == \E i \in 1..Len(mn) : it \in SetOf(Tail(mn[i]))

SharesItem(combo, its) == SetOf(Tail(combo)) \cap SetOf(its) # {}

RECURSIVE Sharing(_, _)
Sharing(mn, its) ==
  IF mn = <<>> THEN <<>>
  ELSE IF SharesItem(Head(mn), its) THEN <<Head(mn)>> \o Sharing(Tail(mn), its)
  ELSE Sharing(Tail(mn), its)

Ones(sel) == Cardinality({i \in 1..Len(sel) : sel[i] = 1})

RECURSIVE Pow2(_)
Pow2(n) == IF n = 0 THEN 1 ELSE 2 * Pow2(n - 1)

\* the maximal runs of consecutive lines with the same restaurant, each as
\* <<restaurant, menu>>
RECURSIVE Runs(_)
Runs(ls) ==
  IF ls = <<>> THEN <<>>
  ELSE LET prev == Runs(SubSeq(ls, 1, Len(ls) - 1))
           l == ls[Len(ls)]
       IN IF prev # <<>> /\ prev[Len(prev)][1] = l[1]
          THEN [prev EXCEPT ![Len(prev)] = <<l[1], Append(@[2], Tail(l))>>]
          ELSE Append(prev, <<l[1], <<Tail(l)>> >>)

Front(s) == SubSeq(s, 1, Len(s) - 1)

\* no restaurant has two runs
Contiguous(ls) ==
  LET rs == Runs(ls) IN \A i, j \in 1..Len(rs) : i # j => rs[i][1] # rs[j][1]

Feasible(mn, its) == CoverPrices(mn, its) # {}

\* the first restaurant, in catalog order, with the lowest minimum cover price
Expected(ls, its) ==
  LET rs == Runs(ls)
      feas == {i \in 1..Len(rs) : Feasible(rs[i][2], its)}
      cost(i) == MinOf(CoverPrices(rs[i][2], its))
  IN IF feas = {} THEN None
     ELSE LET best == CHOOSE i \in feas :
                        /\ \A j \in feas : cost(i) <= cost(j)
                        /\ \A j \in feas : j < i => cost(j) > cost(i)
          IN Val(<<rs[best][1], cost(best)>>)

(* ------------------------------ properties ----------------------------- *)

\* C1: for a menu of two or more bundles returned by reduce_menu and a
\* request of distinct items, get_min_cost returns a price that some covering
\* selection of the menu's bundles costs, and no covering selection costs less.
C1_MinCostIsMinimum ==
  (pc = "get_min_cost_reduced" /\ Len(reduced_menu.val) >= 2 /\ Distinct(items))
    => /\ IsVal(curr_min_cost)
       /\ curr_min_cost.val \in CoverPrices(reduced_menu.val, items)
       /\ \A p \in CoverPrices(reduced_menu.val, items) : curr_min_cost.val <= p

\* C2: once the driver has processed every record of a catalog grouped
\* contiguously by restaurant, for a non-empty request of distinct items, it
\* reports the first restaurant with the lowest minimum cover price and that
\* price, or None exactly when no restaurant is feasible.
C2_DriverReportsBest ==
  (pc \in {"done", "crashed"} /\ items # <<>> /\ Distinct(items) /\ Contiguous(read))
    => output = Expected(read, items)

\* C3: for a non-empty request of distinct items, reduce_menu returns None
\* exactly when some requested item is in no bundle of the menu, and
\* otherwise a menu in which every requested item is in some bundle.
C3_ReduceFeasibility ==
  (pc = "reduce_menu" /\ items # <<>> /\ Distinct(items))
    => /\ (reduced_menu = None) <=> (\E it \in SetOf(items) : ~InSomeBundle(it, menu))
       /\ reduced_menu # None =>
            \A it \in SetOf(items) : InSomeBundle(it, reduced_menu.val)

C3_Witness ==
  /\ pc = "reduce_menu"
  /\ Len(items) = 2
  /\ Distinct(items)
  /\ reduced_menu = None
  /\ InSomeBundle(items[1], menu)
  /\ ~InSomeBundle(items[2], menu)

\* C4: when reduce_menu returns a menu, it is exactly the bundles of the
\* input menu that share an item with the request, in their order, and the
\* minimum price of a covering selection is the same for both menus.
C4_ReductionPreservesOptimum ==
  (pc = "reduce_menu" /\ reduced_menu # None)
    => LET whole == CoverPrices(menu, items)
           kept == CoverPrices(reduced_menu.val, items)
       IN /\ reduced_menu.val = Sharing(menu, items)
          /\ whole # {}
          /\ kept # {}
          /\ MinOf(kept) = MinOf(whole)

C4_Witness ==
  /\ pc = "reduce_menu"
  /\ reduced_menu # None
  /\ Len(menu) = 3
  /\ Len(reduced_menu.val) = 2
  /\ Len(items) >= 1
  /\ MinOf(CoverPrices(menu, items)) > 0

\* C5: for a selection list of the menu's length, is_valid_combo returns the
\* boolean that tells whether every requested item is in a selected bundle;
\* it raises only when the two lengths differ.
C5_ValidIffCovered ==
  pc = "is_valid_combo"
    => /\ Len(item_combo) = Len(menu) =>
            /\ IsVal(valid)
            /\ valid.val = Covers(menu, item_combo, items)
       /\ IsRaise(valid) => Len(item_combo) # Len(menu)

\* C6: get_item_combos(n) is 2^n - 1 lists of n flags 0 or 1, each with a
\* flag set, no two equal, every non-empty selection among them, ordered by
\* increasing number of set flags; for n = 0 it is empty.
C6_ItemCombos ==
  pc = "get_item_combos"
    => LET n == Len(menu)
           cs == item_combos.val
       IN /\ Len(cs) = Pow2(n) - 1
          /\ \A j \in 1..Len(cs) :
               /\ Len(cs[j]) = n
               /\ \A i \in 1..n : cs[j][i] \in {0, 1}
               /\ Ones(cs[j]) >= 1
          /\ Cardinality(SetOf(cs)) = Len(cs)
          /\ SetOf(cs) = {sel \in Selections(n) : Ones(sel) >= 1}
          /\ \A j \in 1..Len(cs) - 1 : Ones(cs[j]) <= Ones(cs[j + 1])
          /\ n = 0 => cs = <<>>

C6_Witness ==
  /\ pc = "get_item_combos"
  /\ Len(menu) = 3
  /\ Len(item_combos.val) = 7
  /\ item_combos.val[4] = <<1, 1, 0>>

\* C7: get_min_cost returns None, never a number and never an exception, for
\* the empty menu and for a menu of two or more bundles of which no selection
\* covers the request.
C7_InfeasibleIsNone ==
  (pc = "get_min_cost"
     /\ (Len(menu) = 0 \/ (Len(menu) >= 2 /\ CoverPrices(menu, items) = {})))
    => curr_min_cost = None

\* C8: when reduce_menu returns a menu of exactly one bundle for a request of
\* distinct items, that bundle contains every requested item, and the price
\* get_min_cost returns for it is that bundle's price, the price of a cover.
C8_SingleBundleSound ==
  (pc \in {"reduce_menu", "get_min_cost_reduced"} /\ Distinct(items)
     /\ reduced_menu # None /\ Len(reduced_menu.val) = 1)
    => /\ SetOf(items) \subseteq SetOf(Tail(reduced_menu.val[1]))
       /\ pc = "get_min_cost_reduced" =>
            /\ curr_min_cost = Val(reduced_menu.val[1][1])
            /\ curr_min_cost.val \in CoverPrices(reduced_menu.val, items)
            /\ curr_min_cost.val \in CoverPrices(menu, items)

C8_Witness ==
  /\ pc = "get_min_cost_reduced"
  /\ Len(items) = 2
  /\ Distinct(items)
  /\ Len(menu) >= 2
  /\ Len(reduced_menu.val) = 1
  /\ IsVal(curr_min_cost)

\* C9: the groups the driver has closed and solved are the maximal runs of
\* consecutive records with the same restaurant, each on its own and in
\* order; a run is closed when a record of another restaurant is read or at
\* the end of the input, and the menu being built is the run still open.
C9_GroupsAreRuns ==
  LET rs == Runs(read)
  IN /\ pc = "loop" =>
          /\ solved = Front(rs)
          /\ read # <<>> =>
               /\ menu = rs[Len(rs)][2]
               /\ curr_restaurant = Val(rs[Len(rs)][1])
     /\ (pc = "done" /\ items # <<>>) => solved = rs
     /\ pc = "crashed" => (solved = rs \/ solved = Front(rs))

C9_Witness ==
  /\ pc = "done"
  /\ Len(read) = 3
  /\ read[1][1] = read[3][1]
  /\ read[1][1] # read[2][1]
  /\ Len(solved) = 3
  /\ solved[1][1] = solved[3][1]

\* C10: when the request names an item more than once, reduce_menu returns
\* None for every menu the driver hands it, so no restaurant is ever kept and
\* the driver prints None.
C10_RepeatedItemNeverFeasible ==
  (HasRepeat(items) /\ pc \in {"loop", "done", "crashed"})
    => /\ pc # "crashed"
       /\ min_restaurant = None
       /\ solved # <<>> => reduced_menu = None
       /\ pc = "done" => output = None

C10_Witness ==
  /\ HasRepeat(items)
  /\ pc = "done"
  /\ output = None
  /\ reduced_menu = None
  /\ \E i \in 1..Len(solved) : \E b \in 1..Len(solved[i][2]) :
       SetOf(items) \subseteq SetOf(Tail(solved[i][2][b]))

====
